---- MODULE Spec2Model ----
(***************************************************************************)
(* Treasury tracker: the single-day ingestion (fetch-tariff.js), the       *)
(* backfill (backfill.js) and the full recompute                           *)
(* (DB_scripts/recompute_aggregates.sql) over the three tables of          *)
(* DB_scripts/schema.sql: tariff_daily, tariff_monthly, tariff_yearly.     *)
(*                                                                         *)
(* Conventions of the model                                                *)
(*  - text is a TLA+ string; a JavaScript null/undefined text and the      *)
(*    empty text are both "" where the code only ever tests truthiness     *)
(*    (safeStr(x) || '');                                                  *)
(*  - a nullable number is <<>> (null) or <<v>>;                           *)
(*  - a JavaScript number is [m, e], the decimal m / 10^e, and NaN is      *)
(*    <<>> around it: <<>> is NaN, <<[m, e]>> a number;                    *)
(*  - a table is a function from the keys of its rows to the rows;         *)
(*  - the columns fetched_at / updated_at (NOW()) are not modelled.        *)
(***************************************************************************)
EXTENDS Integers, Sequences, FiniteSets, TLC

VARIABLES
  daily,     \* tariff_daily: dts_date -> tariff_millions, total_deposits_millions, raw
  monthly,   \* tariff_monthly: month -> the two sums
  yearly,    \* tariff_yearly: year -> the two sums
  files,     \* raw-responses/: file name -> the rows written
  run,       \* the single-day processes: where each is in main() and its locals
  bf,        \* the backfill process: where it is in main() and its locals
  rc,        \* the recompute transaction: where it is and its uncommitted tables
  started,   \* the number of stepwise runs started, which the bounds cap
  served     \* the serving layer: the last request and its response

vars == <<daily, monthly, yearly, files, run, bf, rc, started, served>>

(***************************************************************************)
(* Text                                                                    *)
(***************************************************************************)
Char(s, i) == SubSeq(s, i, i)

Rest(s) == SubSeq(s, 2, Len(s))

IsSpace(c) == c \in {" ", "\t", "\n"}

IsDigit(c) == c \in {"0", "1", "2", "3", "4", "5", "6", "7", "8", "9"}

DigitVal(c) ==
  CASE c = "0" -> 0 [] c = "1" -> 1 [] c = "2" -> 2 [] c = "3" -> 3
    [] c = "4" -> 4 [] c = "5" -> 5 [] c = "6" -> 6 [] c = "7" -> 7
    [] c = "8" -> 8 [] c = "9" -> 9

LowerChar(c) ==
  CASE c = "A" -> "a" [] c = "B" -> "b" [] c = "C" -> "c" [] c = "D" -> "d"
    [] c = "E" -> "e" [] c = "F" -> "f" [] c = "G" -> "g" [] c = "H" -> "h"
    [] c = "I" -> "i" [] c = "J" -> "j" [] c = "K" -> "k" [] c = "L" -> "l"
    [] c = "M" -> "m" [] c = "N" -> "n" [] c = "O" -> "o" [] c = "P" -> "p"
    [] c = "Q" -> "q" [] c = "R" -> "r" [] c = "S" -> "s" [] c = "T" -> "t"
    [] c = "U" -> "u" [] c = "V" -> "v" [] c = "W" -> "w" [] c = "X" -> "x"
    [] c = "Y" -> "y" [] c = "Z" -> "z" [] OTHER -> c

RECURSIVE toLowerCase(_)
toLowerCase(s) ==
  IF s = "" THEN "" ELSE LowerChar(Char(s, 1)) \o toLowerCase(Rest(s))

RECURSIVE trimStart(_)
trimStart(s) ==
  IF s # "" /\ IsSpace(Char(s, 1)) THEN trimStart(Rest(s)) ELSE s

RECURSIVE trimEnd(_)
trimEnd(s) ==
  IF s # "" /\ IsSpace(Char(s, Len(s)))
  THEN trimEnd(SubSeq(s, 1, Len(s) - 1))
  ELSE s

trim(s) == trimEnd(trimStart(s))

\* String.prototype.includes
includes(s, p) ==
  \E i \in 1..(Len(s) - Len(p) + 1) : SubSeq(s, i, i + Len(p) - 1) = p

\* safeStr of both scripts; its null result is "".
safeStr(v) ==
  LET final == trim(v)
  IN IF toLowerCase(final) = "null" \/ final = "" THEN "" ELSE final

(***************************************************************************)
(* Numbers                                                                 *)
(***************************************************************************)
Null == <<>>

Some(v) == <<v>>

\* x || 0 and COALESCE(x, 0) on a nullable integer
OrZero(x) == IF x = Null THEN 0 ELSE x[1]

RECURSIVE Pow10(_)
Pow10(e) == IF e = 0 THEN 1 ELSE 10 * Pow10(e - 1)

\* a + b on two JavaScript numbers [m, e]
NumAdd(a, b) ==
  IF a.e >= b.e
  THEN [m |-> a.m + b.m * Pow10(a.e - b.e), e |-> a.e]
  ELSE [m |-> a.m * Pow10(b.e - a.e) + b.m, e |-> b.e]

NumZero == [m |-> 0, e |-> 0]

\* Math.round: the nearest integer, a tie towards +Infinity.
MathRound(a) == (2 * a.m + Pow10(a.e)) \div (2 * Pow10(a.e))

\* .replace(/[^0-9.\-]/g, '')
RECURSIVE StripNonNumeric(_)
StripNonNumeric(s) ==
  IF s = "" THEN ""
  ELSE LET c == Char(s, 1)
       IN (IF IsDigit(c) \/ c = "." \/ c = "-" THEN c ELSE "")
            \o StripNonNumeric(Rest(s))

RECURSIVE DigitsValue(_, _)
DigitsValue(s, acc) ==
  IF s = "" THEN acc ELSE DigitsValue(Rest(s), 10 * acc + DigitVal(Char(s, 1)))

\* Number(s) for a text of the characters 0-9 . - only: "" is 0, an optional
\* sign and digits with at most one point (and a digit somewhere) is that
\* decimal, anything else is NaN.
JsNumber(s) ==
  IF s = "" THEN Some(NumZero)
  ELSE
    LET neg  == Char(s, 1) = "-"
        body == IF neg THEN Rest(s) ELSE s
        dots == {i \in 1..Len(body) : Char(body, i) = "."}
        sign == IF neg THEN -1 ELSE 1
    IN IF includes(body, "-") \/ Cardinality(dots) > 1 THEN Null
       ELSE IF dots = {}
       THEN IF body = "" THEN Null
            ELSE Some([m |-> sign * DigitsValue(body, 0), e |-> 0])
       ELSE LET p    == CHOOSE i \in dots : TRUE
                int  == SubSeq(body, 1, p - 1)
                frac == SubSeq(body, p + 1, Len(body))
            IN IF int = "" /\ frac = "" THEN Null
               ELSE Some([m |-> sign * DigitsValue(int \o frac, 0),
                          e |-> Len(frac)])

\* parseMillions (fetch-tariff.js) of a text amount
parseMillions(input) == JsNumber(StripNonNumeric(input))

\* toNum (backfill.js) of a text amount
toNum(v) == JsNumber(StripNonNumeric(v))

(***************************************************************************)
(* Dates and keys                                                          *)
(***************************************************************************)
\* String.prototype.slice(a, b) with 0 <= a <= b
slice(s, a, b) == SubSeq(s, a + 1, b)

\* The calendar days the runs are about: two of one month, two of the next
\* month, one of the next year.
Dates == {"2025-01-30", "2025-01-31", "2025-02-03", "2025-02-04", "2026-01-02"}

\* The cast of an ISO text 'YYYY-MM-DD' to a DATE value of the database.
ParseDate(s) ==
  [y |-> DigitsValue(slice(s, 0, 4), 0),
   m |-> DigitsValue(slice(s, 5, 7), 0),
   d |-> DigitsValue(slice(s, 8, 10), 0)]

\* monthKey and yearKey of incMonthlyYearly
ComputeMonthKey(date) == slice(date, 0, 7) \o "-01"

ComputeYearKey(date) == DigitsValue(slice(date, 0, 4), 0)

\* The three conversions above, tabulated once over the texts of the model.
MonthKeyTable == [date \in Dates |-> ComputeMonthKey(date)]

YearKeyTable == [date \in Dates |-> ComputeYearKey(date)]

DateTable ==
  [s \in Dates \cup {ComputeMonthKey(date) : date \in Dates} |-> ParseDate(s)]

ToDate(s) == IF s \in DOMAIN DateTable THEN DateTable[s] ELSE ParseDate(s)

monthKey(date) ==
  IF date \in Dates THEN MonthKeyTable[date] ELSE ComputeMonthKey(date)

yearKey(date) ==
  IF date \in Dates THEN YearKeyTable[date] ELSE ComputeYearKey(date)

\* date_trunc('month', dts_date)::date and EXTRACT(YEAR FROM dts_date)::int
DateTruncMonth(dt) == [dt EXCEPT !.d = 1]

ExtractYear(dt) == dt.y

(***************************************************************************)
(* Row Classifier                                                          *)
(***************************************************************************)
\* /(^|\s)total deposits(\s|$)/i.test(cat)
TotalDepositsRegex(cat) ==
  LET p == "total deposits"
  IN \E i \in 1..(Len(cat) - Len(p) + 1) :
       /\ toLowerCase(SubSeq(cat, i, i + Len(p) - 1)) = p
       /\ i = 1 \/ IsSpace(Char(cat, i - 1))
       /\ i + Len(p) - 1 = Len(cat) \/ IsSpace(Char(cat, i + Len(p)))

\* the phrases of the aggregate pattern tested on the category label
AggregateCatPhrases ==
  {"public debt", "public debt cash issues", "table iiib", "table iiia",
   "table iii", "treasury general account total", "total deposits",
   "total withdrawals", "deposits total", "public debt issues",
   "total, deposits", "treasury general account total deposits"}

\* the phrases of the aggregate pattern tested on the account-type label
AggregateAcctPhrases ==
  {"total deposits", "treasury general account total deposits"}

\* an aggregate test that looks at the category label only
isAggregateRowByCategory(r) ==
  \E p \in AggregateCatPhrases : includes(toLowerCase(safeStr(r.transaction_catg)), p)

\* isAggregate of fetch-tariff.js main (inline) and isAggregateRow of backfill.js
isAggregateRow(r) ==
  LET cat  == toLowerCase(safeStr(r.transaction_catg))
      acct == toLowerCase(safeStr(r.account_type))
  IN \/ \E p \in AggregateCatPhrases : includes(cat, p)
     \/ \E p \in AggregateAcctPhrases : includes(acct, p)

IsCustomsRow(r) == includes(toLowerCase(safeStr(r.transaction_catg)), "customs")

IsExplicitTotalRow(r) == TotalDepositsRegex(safeStr(r.transaction_catg))

IsDepositRow(r) == includes(toLowerCase(safeStr(r.transaction_type)), "deposit")

\* Array.prototype.find: the first row satisfying the test, <<>> if none
FindCustoms(rows) ==
  LET hit == {i \in 1..Len(rows) : IsCustomsRow(rows[i])}
  IN IF hit = {} THEN <<>>
     ELSE <<rows[CHOOSE i \in hit : \A j \in hit : i <= j]>>

\* a search that never finds the explicit total line
FindExplicitTotalNever(rows) == <<>>

FindExplicitTotal(rows) ==
  LET hit == {i \in 1..Len(rows) : IsExplicitTotalRow(rows[i])}
  IN IF hit = {} THEN <<>>
     ELSE <<rows[CHOOSE i \in hit : \A j \in hit : i <= j]>>

\* rows.filter(deposit-type and not aggregate)
FilterDeposits(rows) ==
  SelectSeq(rows, LAMBDA r : IsDepositRow(r) /\ ~isAggregateRow(r))

\* x || 0 on a parsed amount: null and 0 give 0
NumOrZero(x) == IF x = Null THEN NumZero ELSE x[1]

\* filtered.reduce((s, r) => s + (parseMillions(r.transaction_today_amt) || 0), 0)
RECURSIVE ReduceSum(_, _)
ReduceSum(rows, s) ==
  IF rows = <<>> THEN s
  ELSE ReduceSum(Tail(rows),
                 NumAdd(s, NumOrZero(parseMillions(Head(rows).transaction_today_amt))))

\* tariffVal of fetch-tariff.js main: null or a number
TariffVal(rows) ==
  LET tariffRow == FindCustoms(rows)
  IN IF tariffRow = <<>> THEN Null
     ELSE parseMillions(tariffRow[1].transaction_today_amt)

\* totalVal of fetch-tariff.js main: null or a number
TotalVal(rows) ==
  LET totalRowExplicit == FindExplicitTotal(rows)
  IN IF totalRowExplicit # <<>>
     THEN parseMillions(totalRowExplicit[1].transaction_today_amt)
     ELSE Some(ReduceSum(FilterDeposits(rows), NumZero))

\* tariffValRounded / totalValRounded of fetch-tariff.js main: null becomes 0
RoundedOrZero(v) == IF v # Null THEN MathRound(v[1]) ELSE 0

\* computeTariffAndTotalForDate of backfill.js: null stays null
RoundedOrNull(v) == IF v # Null THEN Some(MathRound(v[1])) ELSE Null

computeTariffAndTotalForDate(rowsForDate) ==
  LET tariffRow == FindCustoms(rowsForDate)
      tariff == IF tariffRow = <<>> THEN Null
                ELSE toNum(tariffRow[1].transaction_today_amt)
      explicitTotalRow == FindExplicitTotal(rowsForDate)
      total == IF explicitTotalRow # <<>>
               THEN toNum(explicitTotalRow[1].transaction_today_amt)
               ELSE Some(ReduceSum(FilterDeposits(rowsForDate), NumZero))
  IN [tariff |-> RoundedOrNull(tariff), total |-> RoundedOrNull(total)]

(***************************************************************************)
(* Upstream source                                                         *)
(***************************************************************************)
Line(catg, acct, type, amt) ==
  [transaction_catg |-> catg, account_type |-> acct,
   transaction_type |-> type, transaction_today_amt |-> amt]

TGA == "Treasury General Account (TGA)"

\* What the source may publish for one day (without the date): a customs line
\* and an explicit total; the same day corrected; a day with neither a customs
\* line nor a deposit; a day with a negative customs amount and no total line.
DayWithTotal ==
  << Line("Customs and Certain Excise Taxes", TGA, "Deposits", "100"),
     Line("Total Deposits", TGA, "Deposits", "500") >>

DayCorrected ==
  << Line("Customs and Certain Excise Taxes", TGA, "Deposits", "80"),
     Line("Total Deposits", TGA, "Deposits", "500") >>

DayWithoutDeposits ==
  << Line("Federal Salaries (EFT)", TGA, "Withdrawals", "40") >>

DayWithoutTotal ==
  << Line("Customs and Certain Excise Taxes", TGA, "Deposits", "-25.5"),
     Line("Public Debt Cash Issues (Table IIIB)", TGA, "Deposits", "700"),
     Line("Taxes - Corporate Income", TGA, "Deposits", "60") >>

Payloads == {DayWithTotal, DayCorrected, DayWithoutDeposits, DayWithoutTotal}

\* The lines the row sets of the classifier runs are made of: an explicit
\* total, a line whose category ends in the words total deposits, two
\* aggregate lines (one by its category, one by its account type) and four
\* deposits, one of them the customs line.
ClassifierMenu ==
  << Line("Total Deposits", TGA, "Deposits", "900"),
     Line("Treasury General Account Total Deposits", TGA, "Deposits", "1000"),
     Line("Public Debt Cash Issues (Table IIIB)", TGA, "Deposits", "700"),
     Line("Transfers from Depositaries", "Treasury General Account Total Deposits",
          "Deposits", "2000"),
     Line("Taxes - Corporate Income", TGA, "Deposits", "10"),
     Line("Postal Service Money Orders", TGA, "Deposits", "20"),
     Line("Customs and Certain Excise Taxes", TGA, "Deposits", "30"),
     Line("Taxes - Individual Income", TGA, "Deposits", "820") >>

\* the lines of a sequence at the positions of a set, in their order
RECURSIVE Pick(_, _)
Pick(seq, positions) ==
  IF seq = <<>> THEN <<>>
  ELSE Pick(SubSeq(seq, 1, Len(seq) - 1), positions)
         \o (IF Len(seq) \in positions THEN <<seq[Len(seq)]>> ELSE <<>>)

ReverseLines(seq) == [i \in 1..Len(seq) |-> seq[Len(seq) + 1 - i]]

\* every non-empty choice of lines of the menu, in its order and reversed
ClassifierPayloads ==
  LET inOrder == {Pick(ClassifierMenu, positions) :
                    positions \in SUBSET (1..Len(ClassifierMenu))} \ {<<>>}
  IN inOrder \cup {ReverseLines(payload) : payload \in inOrder}

\* The amount texts of a customs line: numbers as the source writes them, and
\* texts that hold no number.
AmountTexts ==
  {"0", "40", "-12.5", "1,234.56", "$ 40", "2.5", "-.5", "5.",
   "", "null", "N/A", "-", ".", "5-3", "12.5.3"}

AmountPayloads ==
  { << Line("Customs and Certain Excise Taxes", TGA, "Deposits", amt) >> :
      amt \in AmountTexts }

\* What the source holds for each day when a date range is fetched.
Published ==
  [date \in Dates |->
     CASE date = "2025-01-30" -> DayWithTotal
       [] date = "2025-01-31" -> DayWithoutDeposits
       [] date = "2025-02-03" -> DayWithoutTotal
       [] date = "2025-02-04" -> DayCorrected
       [] OTHER -> DayWithTotal]

\* res.data.data of fetchForDateRaw(date): the lines carry their record_date
fetchForDateRaw(date, payload) ==
  [i \in 1..Len(payload) |->
     [record_date |-> date,
      transaction_catg |-> payload[i].transaction_catg,
      account_type |-> payload[i].account_type,
      transaction_type |-> payload[i].transaction_type,
      transaction_today_amt |-> payload[i].transaction_today_amt]]

(***************************************************************************)
(* Database statements                                                     *)
(***************************************************************************)
EmptyTable == << >>

HasRow(table, key) == key \in DOMAIN table

\* INSERT of a row, or its replacement: the key is new or the old row goes
PutRow(table, key, row) ==
  [k \in DOMAIN table \cup {key} |-> IF k = key THEN row ELSE table[k]]

\* SELECT tariff_millions, total_deposits_millions FROM tariff_daily
\* WHERE dts_date = $1; existingResponse.rows[0] || null, <<>> for null
SelectExisting(dly, date) ==
  IF HasRow(dly, ToDate(date)) THEN <<dly[ToDate(date)]>> ELSE <<>>

\* oldTariffData with the stored value never read back
oldTariffDataNeverRead(existing) == 0

\* oldTariffData / oldTotalData: existing ? (existing.column || 0) : 0
oldTariffData(existing) ==
  IF existing # <<>> THEN OrZero(existing[1].tariff_millions) ELSE 0

oldTotalData(existing) ==
  IF existing # <<>> THEN OrZero(existing[1].total_deposits_millions) ELSE 0

\* INSERT INTO tariff_daily ... ON CONFLICT (dts_date) DO UPDATE, with the
\* nullable values tariff and total
UpsertDailyRow(dly, date, tariff, total, rawRows) ==
  PutRow(dly, ToDate(date),
         [tariff_millions |-> tariff, total_deposits_millions |-> total,
          raw |-> rawRows])

\* upsertDailyToDB of fetch-tariff.js: the values are numbers, never null
upsertDailyToDB(dly, date, tariffMillions, totalMillions, rawRows) ==
  UpsertDailyRow(dly, date, Some(tariffMillions), Some(totalMillions), rawRows)

\* res.rows[0] of upsertDailyToDB: RETURNING tariff_millions,
\* total_deposits_millions gives the columns of the row as the statement left it
Returning(dlyAfter, date) ==
  [tariff_millions |-> dlyAfter[ToDate(date)].tariff_millions,
   total_deposits_millions |-> dlyAfter[ToDate(date)].total_deposits_millions]

\* upsertDaily of backfill.js: the values may be null
upsertDaily(dly, date, tariff, total, rawRows) ==
  UpsertDailyRow(dly, date, tariff, total, rawRows)

\* a rollup statement that stores the deltas over the sums of an existing row
AddToRollupOverwrites(table, key, deltaTariff, deltaTotal) ==
  PutRow(table, key,
         [tariff_millions_sum |-> deltaTariff,
          total_deposits_millions_sum |-> deltaTotal])

\* INSERT INTO <rollup> VALUES (key, dT, dD) ON CONFLICT (key) DO UPDATE
\* SET sum = <rollup>.sum + EXCLUDED.sum
AddToRollup(table, key, deltaTariff, deltaTotal) ==
  IF HasRow(table, key)
  THEN PutRow(table, key,
              [tariff_millions_sum |-> table[key].tariff_millions_sum + deltaTariff,
               total_deposits_millions_sum |->
                 table[key].total_deposits_millions_sum + deltaTotal])
  ELSE PutRow(table, key,
              [tariff_millions_sum |-> deltaTariff,
               total_deposits_millions_sum |-> deltaTotal])

\* a monthly statement that leaves an existing row as it is (DO NOTHING)
IncMonthlyDoNothing(mon, date, deltaTariff, deltaTotal) ==
  IF (deltaTariff = 0 /\ deltaTotal = 0) \/ HasRow(mon, ToDate(monthKey(date)))
  THEN mon
  ELSE AddToRollup(mon, ToDate(monthKey(date)), deltaTariff, deltaTotal)

\* the first statement of incMonthlyYearly
IncMonthly(mon, date, deltaTariff, deltaTotal) ==
  IF deltaTariff = 0 /\ deltaTotal = 0 THEN mon
  ELSE AddToRollup(mon, ToDate(monthKey(date)), deltaTariff, deltaTotal)

\* the second statement of incMonthlyYearly with its two deltas exchanged
IncYearlyExchanged(yr, date, deltaTariff, deltaTotal) ==
  IF deltaTariff = 0 /\ deltaTotal = 0 THEN yr
  ELSE AddToRollup(yr, yearKey(date), deltaTotal, deltaTariff)

\* the second statement of incMonthlyYearly
IncYearly(yr, date, deltaTariff, deltaTotal) ==
  IF deltaTariff = 0 /\ deltaTotal = 0 THEN yr
  ELSE AddToRollup(yr, yearKey(date), deltaTariff, deltaTotal)

\* the delta with the old value forgotten: the new value is added again
DeltaWithoutOld(newRounded, oldData) == newRounded

\* deltaTariff / deltaTotal of main: (new || 0) - Number(old || 0)
Delta(newRounded, oldData) == newRounded - oldData

\* if (deltaTariff !== 0 || deltaTotal !== 0) of main
DeltaNonZero(deltaTariff, deltaTotal) == deltaTariff # 0 \/ deltaTotal # 0

(***************************************************************************)
(* Single-day ingestion, one run from its first to its last statement      *)
(***************************************************************************)
Procs == {1, 2}

\* The days prevWorkingDay() yields in the runs of the model.
IngestDates == {"2025-01-30", "2025-01-31", "2025-02-03", "2026-01-02"}

Idle == [pc |-> "idle"]

\* what a finished run has printed: its date, its deltas, its exit code
Finished(date, deltaTariff, deltaTotal, exitCode) ==
  [pc |-> "done", date |-> date, deltaTariff |-> deltaTariff,
   deltaTotal |-> deltaTotal, exitCode |-> exitCode]

\* The part of main() before the database is opened, for every day and every
\* payload of the source: the fetched rows and the two rounded values.
MainValues(date, payload) ==
  LET rows == fetchForDateRaw(date, payload)
  IN [rows |-> rows,
      tariffValRounded |-> RoundedOrZero(TariffVal(rows)),
      totalValRounded |-> RoundedOrZero(TotalVal(rows))]

Fetched ==
  [date \in IngestDates |-> [payload \in Payloads |-> MainValues(date, payload)]]

\* main() of fetch-tariff.js from its first to its last statement, no
\* statement failing and no other run between its statements
IngestDay(p, date, payload) ==
  \E f \in {IF payload \in Payloads THEN Fetched[date][payload]
             ELSE MainValues(date, payload)} :
    LET existing    == SelectExisting(daily, date)
        deltaTariff == Delta(f.tariffValRounded, oldTariffData(existing))
        deltaTotal  == Delta(f.totalValRounded, oldTotalData(existing))
    IN /\ f.rows # <<>>
       /\ daily' = upsertDailyToDB(daily, date, f.tariffValRounded,
                                   f.totalValRounded, f.rows)
       /\ IF DeltaNonZero(deltaTariff, deltaTotal)
          THEN /\ monthly' = IncMonthly(monthly, date, deltaTariff, deltaTotal)
               /\ yearly' = IncYearly(yearly, date, deltaTariff, deltaTotal)
          ELSE UNCHANGED <<monthly, yearly>>
       /\ run' = [run EXCEPT ![p] = Finished(date, deltaTariff, deltaTotal, 0)]
       /\ UNCHANGED <<files, bf, rc, started, served>>

(***************************************************************************)
(* Single-day ingestion, one database statement at a time                  *)
(***************************************************************************)
MaxRuns == 3

\* saveRawLocally: raw-responses/<date>.json holds the rows
saveRawLocally(fs, date, rows) == PutRow(fs, date \o ".json", rows)

\* what a run that caught a database error has printed
Failed(date) == [pc |-> "done", date |-> date, exitCode |-> 1]

Resting(p) == run[p].pc \in {"idle", "done"}

\* main() up to and including the SELECT of the stored values
SelectStep(p, date, payload) ==
  LET f == Fetched[date][payload]
      existing == SelectExisting(daily, date)
  IN /\ Resting(p)
     /\ started < MaxRuns
     /\ f.rows # <<>>
     /\ started' = started + 1
     /\ run' = [run EXCEPT ![p] =
                  [pc |-> "selected", date |-> date, rows |-> f.rows,
                   tariffValRounded |-> f.tariffValRounded,
                   totalValRounded |-> f.totalValRounded,
                   oldTariffData |-> oldTariffData(existing),
                   oldTotalData |-> oldTotalData(existing)]]
     /\ UNCHANGED <<daily, monthly, yearly, files, bf, rc, served>>

\* the daily upsert, the deltas and the test whether any is non-zero
UpsertStep(p) ==
  LET r == run[p]
      deltaTariff == Delta(r.tariffValRounded, r.oldTariffData)
      deltaTotal  == Delta(r.totalValRounded, r.oldTotalData)
  IN /\ r.pc = "selected"
     /\ daily' = upsertDailyToDB(daily, r.date, r.tariffValRounded,
                                 r.totalValRounded, r.rows)
     /\ run' = [run EXCEPT ![p] =
                  IF DeltaNonZero(deltaTariff, deltaTotal)
                  THEN [pc |-> "upserted", date |-> r.date, rows |-> r.rows,
                        deltaTariff |-> deltaTariff, deltaTotal |-> deltaTotal]
                  ELSE Finished(r.date, deltaTariff, deltaTotal, 0)]
     /\ UNCHANGED <<monthly, yearly, files, bf, rc, started, served>>

\* the first statement of incMonthlyYearly
IncMonthlyStep(p) ==
  LET r == run[p]
  IN /\ r.pc = "upserted"
     /\ monthly' = IncMonthly(monthly, r.date, r.deltaTariff, r.deltaTotal)
     /\ run' = [run EXCEPT ![p].pc = "monthlyDone"]
     /\ UNCHANGED <<daily, yearly, files, bf, rc, started, served>>

\* the second statement of incMonthlyYearly and the end of main()
IncYearlyStep(p) ==
  LET r == run[p]
  IN /\ r.pc = "monthlyDone"
     /\ yearly' = IncYearly(yearly, r.date, r.deltaTariff, r.deltaTotal)
     /\ run' = [run EXCEPT ![p] = Finished(r.date, r.deltaTariff, r.deltaTotal, 0)]
     /\ UNCHANGED <<daily, monthly, files, bf, rc, started, served>>

\* the SELECT throws: the catch block saves the rows and sets the exit code
SelectFails(p, date, payload) ==
  LET f == Fetched[date][payload]
  IN /\ Resting(p)
     /\ started < MaxRuns
     /\ f.rows # <<>>
     /\ started' = started + 1
     /\ files' = saveRawLocally(files, date, f.rows)
     /\ run' = [run EXCEPT ![p] = Failed(date)]
     /\ UNCHANGED <<daily, monthly, yearly, bf, rc, served>>

\* the daily upsert, the monthly or the yearly statement throws: nothing of
\* the failing statement is stored, the catch block saves the rows
StatementFails(p, at) ==
  LET r == run[p]
  IN /\ r.pc = at
     /\ files' = saveRawLocally(files, r.date, r.rows)
     /\ run' = [run EXCEPT ![p] = Failed(r.date)]
     /\ UNCHANGED <<daily, monthly, yearly, bf, rc, started, served>>

UpsertFails(p) == StatementFails(p, "selected")

IncMonthlyFails(p) == StatementFails(p, "upserted")

IncYearlyFails(p) == StatementFails(p, "monthlyDone")

\* a test of the fetched rows that lets an empty answer through
NoRowsNever(rows) == FALSE

\* the test of main() on the fetched rows: !rows || rows.length === 0
NoRows(rows) == rows = <<>>

\* what a run that fetched no rows has printed: the warning, and no exit code
NoData(date) == [pc |-> "done", date |-> date, rows |-> <<>>, exitCode |-> 0]

\* main() from the fetch to the SELECT of the stored values, for any answer
\* of the source, the empty one included: without rows it returns before the
\* client is made
StartRun(p, date, payload) ==
  \E f \in {IF payload \in Payloads THEN Fetched[date][payload]
             ELSE MainValues(date, payload)} :
    LET existing == SelectExisting(daily, date)
    IN /\ Resting(p)
       /\ started < MaxRuns
       /\ started' = started + 1
       /\ run' = [run EXCEPT ![p] =
                    IF NoRows(f.rows)
                    THEN NoData(date)
                    ELSE [pc |-> "selected", date |-> date, rows |-> f.rows,
                          tariffValRounded |-> f.tariffValRounded,
                          totalValRounded |-> f.totalValRounded,
                          oldTariffData |-> oldTariffData(existing),
                          oldTotalData |-> oldTotalData(existing)]]
       /\ UNCHANGED <<daily, monthly, yearly, files, bf, rc, served>>

\* what a run that could not connect has printed
ConnectFailed(date) ==
  [pc |-> "done", date |-> date, exitCode |-> 1, message |-> "DB connect failed"]

\* client.connect() throws: the catch block saves the rows and sets the exit
\* code
ConnectFails(p, date, payload) ==
  LET f == Fetched[date][payload]
  IN /\ Resting(p)
     /\ started < MaxRuns
     /\ ~NoRows(f.rows)
     /\ started' = started + 1
     /\ files' = saveRawLocally(files, date, f.rows)
     /\ run' = [run EXCEPT ![p] = ConnectFailed(date)]
     /\ UNCHANGED <<daily, monthly, yearly, bf, rc, served>>

(***************************************************************************)
(* The Delta Aggregator on its own                                         *)
(***************************************************************************)
\* The deltas and the days incMonthlyYearly is called with.
Deltas == {-20, 0, 80}

AggregateDates == {"2025-01-30", "2025-02-03", "2026-01-02"}

\* incMonthlyYearly(client, date, deltaTariff, deltaTotal), both statements
incMonthlyYearly(date, deltaTariff, deltaTotal) ==
  /\ started < MaxRuns
  /\ started' = started + 1
  /\ IF deltaTariff = 0 /\ deltaTotal = 0
     THEN UNCHANGED <<monthly, yearly>>
     ELSE /\ monthly' = IncMonthly(monthly, date, deltaTariff, deltaTotal)
          /\ yearly' = IncYearly(yearly, date, deltaTariff, deltaTotal)
  /\ run' = [run EXCEPT ![1] = [pc |-> "aggregated", date |-> date,
                                deltaTariff |-> deltaTariff,
                                deltaTotal |-> deltaTotal]]
  /\ UNCHANGED <<daily, files, bf, rc, served>>

(***************************************************************************)
(* Backfill (backfill.js)                                                  *)
(***************************************************************************)
\* The order of two dates of the database.
DateLeq(a, b) ==
  \/ a.y < b.y
  \/ a.y = b.y /\ a.m < b.m
  \/ a.y = b.y /\ a.m = b.m /\ a.d <= b.d

\* The UTF-16 code unit of a character of a date text.
CharCode(c) == IF c = "-" THEN 45 ELSE 48 + DigitVal(c)

\* a < b in the order of Array.prototype.sort() without a comparator
RECURSIVE StrLess(_, _)
StrLess(a, b) ==
  IF b = "" THEN FALSE
  ELSE IF a = "" THEN TRUE
  ELSE IF Char(a, 1) = Char(b, 1) THEN StrLess(Rest(a), Rest(b))
  ELSE CharCode(Char(a, 1)) < CharCode(Char(b, 1))

\* Array.from(keys).sort()
RECURSIVE SortTexts(_)
SortTexts(keys) ==
  IF keys = {} THEN <<>>
  ELSE LET least == CHOOSE x \in keys : \A y \in keys \ {x} : StrLess(x, y)
       IN <<least>> \o SortTexts(keys \ {least})

RECURSIVE Concat(_)
Concat(seqs) == IF seqs = <<>> THEN <<>> ELSE Head(seqs) \o Concat(Tail(seqs))

Reverse(seq) == [i \in 1..Len(seq) |-> seq[Len(seq) + 1 - i]]

\* fetchRangeAll(startDate, endDate): every published line whose record_date
\* is in the range, the newest day first
fetchRangeAll(startDate, endDate) ==
  LET inRange == {date \in Dates : /\ DateLeq(ToDate(startDate), ToDate(date))
                                   /\ DateLeq(ToDate(date), ToDate(endDate))}
      newestFirst == Reverse(SortTexts(inRange))
  IN Concat([i \in 1..Len(newestFirst) |->
               fetchForDateRaw(newestFirst[i], Published[newestFirst[i]])])

\* groupByDate: the lines of each record_date, in their order
groupByDate(rows) ==
  [date \in {rows[i].record_date : i \in {j \in 1..Len(rows) : rows[j].record_date # ""}}
     |-> SelectSeq(rows, LAMBDA r : r.record_date = date)]

\* main() of backfill.js up to the loop, for every range of the model: the
\* sorted dates, the lines of each and the two values computed for each.
Ranges ==
  { <<"2025-01-30", "2026-01-02">>,
    <<"2025-01-30", "2025-01-31">>,
    <<"2025-02-03", "2025-02-04">> }

GroupedFor(range) ==
  LET grouped == groupByDate(fetchRangeAll(range[1], range[2]))
  IN [dates   |-> SortTexts(DOMAIN grouped),
      grouped |-> grouped,
      values  |-> [date \in DOMAIN grouped |->
                     computeTariffAndTotalForDate(grouped[date])]]

RECURSIVE GroupedTable(_)
GroupedTable(ranges) ==
  IF ranges = {} THEN << >>
  ELSE LET range == CHOOSE r \in ranges : TRUE
       IN (range :> GroupedFor(range)) @@ GroupedTable(ranges \ {range})

Grouped == GroupedTable(Ranges)

\* the most dates one backfill may see the database refuse
MaxFailed == 2

\* the name of the file the loop writes for a date whose upsert failed
FailedFile(d) == "failed-" \o d \o ".json"

\* main() of backfill.js from its start to the connected client
StartBackfill(startDate, endDate) ==
  LET g == Grouped[<<startDate, endDate>>]
  IN /\ bf.pc \in {"idle", "done", "exited"}
     /\ started < MaxRuns
     /\ started' = started + 1
     /\ bf' = [pc |-> "loop", dates |-> g.dates, grouped |-> g.grouped,
               values |-> g.values, i |-> 1, processed |-> 0, failed |-> {}]
     /\ UNCHANGED <<daily, monthly, yearly, files, run, rc, served>>

\* main() of backfill.js when client.connect() throws: the error is printed
\* and the process exits with code 1; bf keeps the dates and rows it fetched
BackfillConnectFails(startDate, endDate) ==
  LET g == Grouped[<<startDate, endDate>>]
  IN /\ bf.pc \in {"idle", "done", "exited"}
     /\ started < MaxRuns
     /\ started' = started + 1
     /\ bf' = [pc |-> "exited", dates |-> g.dates, grouped |-> g.grouped,
               exitCode |-> 1]
     /\ UNCHANGED <<daily, monthly, yearly, files, run, rc, served>>

\* a turn of the loop that also adds the values of the date to its month
UpsertDateWithRollups ==
  /\ bf.pc = "loop"
  /\ bf.i <= Len(bf.dates)
  /\ LET d == bf.dates[bf.i]
     IN /\ daily' = upsertDaily(daily, d, bf.values[d].tariff, bf.values[d].total,
                                bf.grouped[d])
        /\ monthly' = AddToRollup(monthly, ToDate(monthKey(d)),
                                  OrZero(bf.values[d].tariff), OrZero(bf.values[d].total))
        /\ bf' = [bf EXCEPT !.i = @ + 1, !.processed = @ + 1]
  /\ UNCHANGED <<yearly, files, run, rc, started, served>>

\* one turn of the loop whose upsert succeeds
UpsertDate ==
  /\ bf.pc = "loop"
  /\ bf.i <= Len(bf.dates)
  /\ LET d == bf.dates[bf.i]
     IN /\ daily' = upsertDaily(daily, d, bf.values[d].tariff, bf.values[d].total,
                                bf.grouped[d])
        /\ bf' = [bf EXCEPT !.i = @ + 1, !.processed = @ + 1]
  /\ UNCHANGED <<monthly, yearly, files, run, rc, started, served>>

\* a failing turn that leaves the loop
UpsertDateFailsAborts ==
  /\ bf.pc = "loop"
  /\ bf.i <= Len(bf.dates)
  /\ Cardinality(bf.failed) < MaxFailed
  /\ LET d == bf.dates[bf.i]
     IN /\ files' = PutRow(files, FailedFile(d), bf.grouped[d])
        /\ bf' = [bf EXCEPT !.i = Len(bf.dates) + 1, !.failed = @ \cup {d}]
  /\ UNCHANGED <<daily, monthly, yearly, run, rc, started, served>>

\* one turn of the loop whose upsert throws: the catch block writes the lines
\* of the date; bf.failed records the dates the database refused
UpsertDateFails ==
  /\ bf.pc = "loop"
  /\ bf.i <= Len(bf.dates)
  /\ Cardinality(bf.failed) < MaxFailed
  /\ LET d == bf.dates[bf.i]
     IN /\ files' = PutRow(files, FailedFile(d), bf.grouped[d])
        /\ bf' = [bf EXCEPT !.i = @ + 1, !.failed = @ \cup {d}]
  /\ UNCHANGED <<daily, monthly, yearly, run, rc, started, served>>

\* the end of main(): "Done. Upserted <processed> daily rows"
FinishBackfill ==
  /\ bf.pc = "loop"
  /\ bf.i > Len(bf.dates)
  /\ bf' = [bf EXCEPT !.pc = "done"]
  /\ UNCHANGED <<daily, monthly, yearly, files, run, rc, started, served>>

\* main() of backfill.js for a range of the one day date, for which the
\* source holds payload, the upsert not failing
BackfillDay(date, payload) ==
  LET rowsForDate == fetchForDateRaw(date, payload)
      grouped == groupByDate(rowsForDate)
      v == computeTariffAndTotalForDate(grouped[date])
  IN /\ bf.pc \in {"idle", "done"}
     /\ daily' = upsertDaily(daily, date, v.tariff, v.total, grouped[date])
     /\ bf' = [pc |-> "done", dates |-> SortTexts(DOMAIN grouped),
               grouped |-> grouped, values |-> [d \in {date} |-> v],
               i |-> 2, processed |-> 1, failed |-> {}]
     /\ UNCHANGED <<monthly, yearly, files, run, rc, started, served>>

(***************************************************************************)
(* Pagination of the range fetch (backfill.js fetchRangeAll)               *)
(***************************************************************************)
\* The page size of the requests and the most lines the source holds for the
\* range, scaled down.
PAGE_SIZE == 2

MaxRows == 7

\* The lines the source holds for the range: the first n lines of everything
\* published.
Everything == fetchRangeAll("2025-01-30", "2026-01-02")

UpstreamResult(n) == SubSeq(Everything, 1, n)

\* the number of pages of a result of n lines
PagesOf(n) == (n + PAGE_SIZE - 1) \div PAGE_SIZE

\* The shapes of body.meta: absent, present without a page count, present
\* with the page count of the result.
MetaKinds == {"none", "withoutTotal", "total"}

\* fetchPage(params): the body the source answers page[number] = page with
fetchPage(result, page, metaKind) ==
  LET first == (page - 1) * PAGE_SIZE + 1
      last  == IF page * PAGE_SIZE < Len(result) THEN page * PAGE_SIZE ELSE Len(result)
  IN [data |-> SubSeq(result, first, last),
      meta |-> CASE metaKind = "none" -> Null
                 [] metaKind = "withoutTotal" -> Some([total_pages |-> Null])
                 [] metaKind = "total" ->
                      Some([total_pages |-> Some(PagesOf(Len(result)))])]

\* a test for the last page that looks at the length of the page only
LastPageByLength(page, body) == Len(body.data) < PAGE_SIZE

\* the tests of the loop that end it: meta.pagination.total_pages, when it is
\* there and not 0, decides; otherwise the length of the page does
LastPage(page, body) ==
  IF body.meta = Null
  THEN Len(body.data) < PAGE_SIZE
  ELSE LET totalPages == IF body.meta[1].total_pages # Null
                            /\ body.meta[1].total_pages[1] # 0
                         THEN body.meta[1].total_pages ELSE Null
       IN IF totalPages # Null
          THEN page >= totalPages[1]
          ELSE Len(body.data) < PAGE_SIZE

\* fetchRangeAll is called: page = 1, all = []; bf.n is the number of lines
\* the source holds, bf.requested the page numbers asked for and bf.metas the
\* shapes of the answers
FetchStart(n) ==
  /\ bf.pc = "idle"
  /\ bf' = [pc |-> "fetching", n |-> n, page |-> 1, all |-> <<>>,
            requested |-> <<>>, metas |-> <<>>]
  /\ UNCHANGED <<daily, monthly, yearly, files, run, rc, started, served>>

\* one turn of the loop: the request, all.push(...data), the tests, and
\* either the return of all or page += 1
FetchTurn(metaKind) ==
  /\ bf.pc = "fetching"
  /\ LET body == fetchPage(UpstreamResult(bf.n), bf.page, metaKind)
     IN bf' = [bf EXCEPT !.all = @ \o body.data,
                         !.requested = Append(@, bf.page),
                         !.metas = Append(@, metaKind),
                         !.pc = IF LastPage(bf.page, body) THEN "fetched" ELSE @,
                         !.page = IF LastPage(bf.page, body) THEN @ ELSE @ + 1]
  /\ UNCHANGED <<daily, monthly, yearly, files, run, rc, started, served>>

(***************************************************************************)
(* Full Recompute (recompute_aggregates.sql)                               *)
(***************************************************************************)
\* a sum that one null makes null
SqlSumNullPoisons(dly, keys, column) ==
  IF \E k \in keys : dly[k][column] = Null THEN Null
  ELSE Some(0)

\* SUM(column) over the rows of the keys: nulls are skipped, and the sum of no
\* value is null
RECURSIVE SqlSum(_, _, _)
SqlSum(dly, keys, column) ==
  IF keys = {} THEN Null
  ELSE LET k    == CHOOSE x \in keys : TRUE
           rest == SqlSum(dly, keys \ {k}, column)
       IN IF dly[k][column] = Null THEN rest
          ELSE Some(dly[k][column][1] + OrZero(rest))

\* SELECT date_trunc('month', dts_date)::date AS month, COALESCE(SUM(..), 0),
\* COALESCE(SUM(..), 0) FROM tariff_daily GROUP BY month
SelectByMonth(dly) ==
  [month \in {DateTruncMonth(k) : k \in DOMAIN dly} |->
     LET group == {k \in DOMAIN dly : DateTruncMonth(k) = month}
     IN [tariff_millions_sum |-> OrZero(SqlSum(dly, group, "tariff_millions")),
         total_deposits_millions_sum |->
           OrZero(SqlSum(dly, group, "total_deposits_millions"))]]

\* SELECT EXTRACT(YEAR FROM dts_date)::int AS year, ... GROUP BY year
SelectByYear(dly) ==
  [year \in {ExtractYear(k) : k \in DOMAIN dly} |->
     LET group == {k \in DOMAIN dly : ExtractYear(k) = year}
     IN [tariff_millions_sum |-> OrZero(SqlSum(dly, group, "tariff_millions")),
         total_deposits_millions_sum |->
           OrZero(SqlSum(dly, group, "total_deposits_millions"))]]

\* INSERT INTO <rollup> SELECT ...: the selected rows join the table
InsertRows(table, rows) ==
  [k \in DOMAIN table \cup DOMAIN rows |->
     IF k \in DOMAIN rows THEN rows[k] ELSE table[k]]

\* BEGIN: the transaction works on its own version of both rollup tables
Begin ==
  /\ rc.pc \in {"idle", "committed"}
  /\ started < MaxRuns
  /\ started' = started + 1
  /\ rc' = [pc |-> "begun", monthly |-> monthly, yearly |-> yearly]
  /\ UNCHANGED <<daily, monthly, yearly, files, run, bf, served>>

\* TRUNCATE TABLE tariff_monthly
TruncateMonthly ==
  /\ rc.pc = "begun"
  /\ rc' = [rc EXCEPT !.pc = "truncatedMonthly", !.monthly = EmptyTable]
  /\ UNCHANGED <<daily, monthly, yearly, files, run, bf, started, served>>

\* INSERT INTO tariff_monthly SELECT ... GROUP BY month
InsertMonthly ==
  /\ rc.pc = "truncatedMonthly"
  /\ rc' = [rc EXCEPT !.pc = "insertedMonthly",
                      !.monthly = InsertRows(@, SelectByMonth(daily))]
  /\ UNCHANGED <<daily, monthly, yearly, files, run, bf, started, served>>

\* TRUNCATE TABLE tariff_yearly
TruncateYearly ==
  /\ rc.pc = "insertedMonthly"
  /\ rc' = [rc EXCEPT !.pc = "truncatedYearly", !.yearly = EmptyTable]
  /\ UNCHANGED <<daily, monthly, yearly, files, run, bf, started, served>>

\* INSERT INTO tariff_yearly SELECT ... GROUP BY year
InsertYearly ==
  /\ rc.pc = "truncatedYearly"
  /\ rc' = [rc EXCEPT !.pc = "insertedYearly",
                      !.yearly = InsertRows(@, SelectByYear(daily))]
  /\ UNCHANGED <<daily, monthly, yearly, files, run, bf, started, served>>

\* COMMIT: both tables of the transaction become the stored ones at once
Commit ==
  /\ rc.pc = "insertedYearly"
  /\ monthly' = rc.monthly
  /\ yearly' = rc.yearly
  /\ rc' = [pc |-> "committed"]
  /\ UNCHANGED <<daily, files, run, bf, started, served>>

(***************************************************************************)
(* Serving layer (server.js)                                               *)
(***************************************************************************)
\* The values of req.query.year: absent, or one of these texts.
YearTexts ==
  {"2025", "2026", "1900", "3000", "1899", "3001", "2025.5", "abc", "0", "-5",
   "20x5"}

YearQueries == {Null} \cup {Some(text) : text \in YearTexts}

\* new Date().getFullYear() at the time of the requests
CurrentYear == ExtractYear(ToDate("2026-01-02"))

\* Number(text) for the texts above: a text with a character that is no
\* digit, point or minus is NaN (null here)
ServerNumber(text) ==
  IF StripNonNumeric(text) # text THEN Null ELSE JsNumber(text)

\* the number a handler gets from Number(undefined): NaN
NumberOfQuery(q) == IF q = Null THEN Null ELSE ServerNumber(q[1])

\* a || b on a number a: NaN and 0 give b
OrElse(a, b) == IF a = Null \/ a[1].m = 0 THEN Some([m |-> b, e |-> 0]) ELSE a

\* Number.isInteger(year)
NumberIsInteger(v) == v # Null /\ v[1].m % Pow10(v[1].e) = 0

\* !Number.isInteger(year) || year < 1900 || year > 3000
InvalidYear(v) ==
  \/ ~NumberIsInteger(v)
  \/ v[1].m < 1900 * Pow10(v[1].e)
  \/ v[1].m > 3000 * Pow10(v[1].e)

\* the integer an integral number is
IntegerOf(v) == v[1].m \div Pow10(v[1].e)

\* GET /api/cumulative and GET /api/monthly: the year, its test, and the one
\* query WHERE EXTRACT(YEAR FROM <key>) = $1 over the table of the endpoint
YearHandler(endpoint, table, q) ==
  LET year == OrElse(NumberOfQuery(q), CurrentYear)
  IN IF InvalidYear(year)
     THEN [endpoint |-> endpoint, year |-> q, status |-> 400, queries |-> 0,
           answered |-> Null, rows |-> {}]
     ELSE [endpoint |-> endpoint, year |-> q, status |-> 200, queries |-> 1,
           answered |-> Some(IntegerOf(year)),
           rows |-> {k \in DOMAIN table : ExtractYear(k) = IntegerOf(year)}]

Cumulative(q) ==
  /\ served' = YearHandler("/api/cumulative", daily, q)
  /\ UNCHANGED <<daily, monthly, yearly, files, run, bf, rc, started>>

Monthly(q) ==
  /\ served' = YearHandler("/api/monthly", monthly, q)
  /\ UNCHANGED <<daily, monthly, yearly, files, run, bf, rc, started>>

\* GET /api/summary/today: the last daily row is selected first; a query text
\* that is not empty is turned into a number and no test follows; the yearly
\* query runs with it, and the database refuses a parameter that is no
\* integer (the column year is an INT), which the catch block answers with
\* status 500
SummaryToday(q) ==
  LET yearQuery == IF q # Null /\ q[1] # "" THEN ServerNumber(q[1])
                   ELSE Some([m |-> CurrentYear, e |-> 0])
      lastRow == {k \in DOMAIN daily : \A j \in DOMAIN daily : DateLeq(j, k)}
  IN /\ served' =
          IF NumberIsInteger(yearQuery)
          THEN [endpoint |-> "/api/summary/today", year |-> q, status |-> 200,
                queries |-> 2, answered |-> Some(IntegerOf(yearQuery)),
                rows |-> [lastRow |-> lastRow,
                          yearly |-> {k \in DOMAIN yearly :
                                        k = IntegerOf(yearQuery)}]]
          ELSE [endpoint |-> "/api/summary/today", year |-> q, status |-> 500,
                queries |-> 2, answered |-> Null, rows |-> {}]
     /\ UNCHANGED <<daily, monthly, yearly, files, run, bf, rc, started>>

Init ==
  /\ daily = EmptyTable
  /\ monthly = EmptyTable
  /\ yearly = EmptyTable
  /\ files = EmptyTable
  /\ run = [p \in Procs |-> Idle]
  /\ bf = Idle
  /\ rc = Idle
  /\ started = 0
  /\ served = Idle

Next == \E date \in IngestDates, payload \in Payloads : IngestDay(1, date, payload)

Spec == Init /\ [][Next]_vars

\* Two single-day processes whose statements interleave, no statement failing.
NextOverlap ==
  \E p \in Procs :
    \/ \E date \in IngestDates, payload \in Payloads : SelectStep(p, date, payload)
    \/ UpsertStep(p)
    \/ IncMonthlyStep(p)
    \/ IncYearlyStep(p)

SpecOverlap == Init /\ [][NextOverlap]_vars

\* One single-day process at a time, any of whose statements may fail.
NextFail ==
  \/ \E date \in IngestDates, payload \in Payloads : SelectStep(1, date, payload)
  \/ UpsertStep(1)
  \/ IncMonthlyStep(1)
  \/ IncYearlyStep(1)
  \/ \E date \in IngestDates, payload \in Payloads : SelectFails(1, date, payload)
  \/ UpsertFails(1)
  \/ IncMonthlyFails(1)
  \/ IncYearlyFails(1)

SpecFail == Init /\ [][NextFail]_vars

\* Single-day runs of one process, one at a time, statement by statement, no
\* statement failing: every state is one a reader of the tables may see.
NextSteps ==
  \/ \E date \in IngestDates, payload \in Payloads : SelectStep(1, date, payload)
  \/ UpsertStep(1)
  \/ IncMonthlyStep(1)
  \/ IncYearlyStep(1)

SpecSteps == Init /\ [][NextSteps]_vars

\* The first ingestion of one day, through the single-day path and through
\* the backfill, for every row set of the classifier menu and every amount
\* text.
ClassifierDay == "2025-01-30"

NextClassifier ==
  /\ daily = EmptyTable
  /\ \E payload \in ClassifierPayloads \cup AmountPayloads :
       \/ IngestDay(1, ClassifierDay, payload)
       \/ BackfillDay(ClassifierDay, payload)

SpecClassifier == Init /\ [][NextClassifier]_vars

\* Calls of the Delta Aggregator with any deltas, between whole single-day
\* runs that store one day.
NextAggregator ==
  \/ IngestDay(1, "2025-01-30", DayWithTotal)
  \/ \E date \in AggregateDates, deltaTariff \in Deltas, deltaTotal \in Deltas :
       incMonthlyYearly(date, deltaTariff, deltaTotal)

SpecAggregator == Init /\ [][NextAggregator]_vars

\* Single-day runs, one at a time and statement by statement, for days the
\* source has rows of and days it has none of.
NoDataDates == {"2025-01-30", "2025-02-03"}

NextNoData ==
  \/ \E date \in NoDataDates, payload \in {<<>>, DayWithTotal, DayCorrected} :
       StartRun(1, date, payload)
  \/ UpsertStep(1)
  \/ IncMonthlyStep(1)
  \/ IncYearlyStep(1)

SpecNoData == Init /\ [][NextNoData]_vars

\* Single-day runs, backfills and recomputes, one operation at a time; the
\* upsert of any date of a backfill may fail.
NoneRunning ==
  /\ Resting(1)
  /\ bf.pc \in {"idle", "done", "exited"}
  /\ rc.pc \in {"idle", "committed"}

NextBackfill ==
  \/ /\ NoneRunning
     /\ \E date \in {"2025-01-30", "2025-02-03"},
           payload \in {DayCorrected, DayWithoutDeposits} : SelectStep(1, date, payload)
  \/ UpsertStep(1)
  \/ IncMonthlyStep(1)
  \/ IncYearlyStep(1)
  \/ /\ NoneRunning
     /\ \E range \in Ranges : StartBackfill(range[1], range[2])
  \/ UpsertDate
  \/ UpsertDateFails
  \/ FinishBackfill
  \/ NoneRunning /\ Begin
  \/ TruncateMonthly
  \/ InsertMonthly
  \/ TruncateYearly
  \/ InsertYearly
  \/ Commit

SpecBackfill == Init /\ [][NextBackfill]_vars

\* Single-day runs and backfills, one operation at a time, in which the
\* connection and every statement may fail.
NextSideChannel ==
  \/ /\ NoneRunning
     /\ \E payload \in {DayWithTotal, DayCorrected} :
          SelectStep(1, "2025-01-30", payload)
  \/ /\ NoneRunning
     /\ \E payload \in {DayWithTotal, DayCorrected} :
          ConnectFails(1, "2025-01-30", payload)
  \/ /\ NoneRunning
     /\ \E payload \in {DayWithTotal, DayCorrected} :
          SelectFails(1, "2025-01-30", payload)
  \/ UpsertStep(1)
  \/ IncMonthlyStep(1)
  \/ IncYearlyStep(1)
  \/ UpsertFails(1)
  \/ IncMonthlyFails(1)
  \/ IncYearlyFails(1)
  \/ /\ NoneRunning
     /\ \E range \in Ranges : StartBackfill(range[1], range[2])
  \/ /\ NoneRunning
     /\ \E range \in Ranges : BackfillConnectFails(range[1], range[2])
  \/ UpsertDate
  \/ UpsertDateFails
  \/ FinishBackfill

SpecSideChannel == Init /\ [][NextSideChannel]_vars

\* Two single-day processes whose statements interleave, never both in a run
\* of the same date.
TwoDates == {"2025-01-30", "2025-01-31", "2026-01-02"}

InRun(p) == run[p].pc \in {"selected", "upserted", "monthlyDone"}

NextTwoDates ==
  \E p \in Procs :
    \/ \E date \in TwoDates, payload \in {DayWithTotal, DayCorrected} :
         /\ \A other \in Procs \ {p} : InRun(other) => run[other].date # date
         /\ SelectStep(p, date, payload)
    \/ UpsertStep(p)
    \/ IncMonthlyStep(p)
    \/ IncYearlyStep(p)

SpecTwoDates == Init /\ [][NextTwoDates]_vars

\* TRUNCATE holds its lock on the table until COMMIT: a statement of another
\* session on that table waits for the end of the transaction.
MonthlyLocked ==
  rc.pc \in {"truncatedMonthly", "insertedMonthly", "truncatedYearly", "insertedYearly"}

YearlyLocked == rc.pc \in {"truncatedYearly", "insertedYearly"}

\* Single-day runs of one process and Full Recomputes whose statements
\* interleave.
NextRecomputeOverlap ==
  \/ \E date \in {"2025-01-30", "2026-01-02"}, payload \in {DayWithTotal, DayCorrected} :
       SelectStep(1, date, payload)
  \/ UpsertStep(1)
  \/ ~MonthlyLocked /\ IncMonthlyStep(1)
  \/ ~YearlyLocked /\ IncYearlyStep(1)
  \/ Begin
  \/ TruncateMonthly
  \/ InsertMonthly
  \/ TruncateYearly
  \/ InsertYearly
  \/ Commit

SpecRecomputeOverlap == Init /\ [][NextRecomputeOverlap]_vars

\* Requests to the three endpoints that take a year, between whole single-day
\* runs.
NextServe ==
  \/ \E date \in {"2025-01-30", "2026-01-02"} : IngestDay(1, date, DayWithTotal)
  \/ \E q \in YearQueries : Cumulative(q)
  \/ \E q \in YearQueries : Monthly(q)
  \/ \E q \in YearQueries : SummaryToday(q)

SpecServe == Init /\ [][NextServe]_vars

\* One call of fetchRangeAll for a result of any length and answers of any
\* shape; every request is answered, so a turn of the loop that can be taken
\* is taken.
NextPagination ==
  \/ \E n \in 0..MaxRows : FetchStart(n)
  \/ \E metaKind \in MetaKinds : FetchTurn(metaKind)

SpecPagination == Init /\ [][NextPagination]_vars /\ WF_vars(NextPagination)

(***************************************************************************)
(* Properties                                                              *)
(***************************************************************************)
\* The sum of a column over the daily records of the keys, null counted as 0.
RECURSIVE DailySum(_, _)
DailySum(keys, column) ==
  IF keys = {} THEN 0
  ELSE LET k == CHOOSE x \in keys : TRUE
       IN OrZero(daily[k][column]) + DailySum(keys \ {k}, column)

\* A column of a rollup row, a missing row counted as 0.
RollupValue(table, key, column) ==
  IF HasRow(table, key) THEN table[key][column] ELSE 0

DaysOfMonth(month) == {k \in DOMAIN daily : k.y = month.y /\ k.m = month.m}

DaysOfYear(year) == {k \in DOMAIN daily : k.y = year}

AllMonths == {[ParseDate(d) EXCEPT !.d = 1] : d \in Dates}

AllYears == {ParseDate(d).y : d \in Dates}

\* Every monthly and yearly rollup equals the sum of the daily records of its
\* bucket, in both columns.
RollupsMatchDaily ==
  /\ \A month \in AllMonths \cup DOMAIN monthly :
       /\ RollupValue(monthly, month, "tariff_millions_sum")
            = DailySum(DaysOfMonth(month), "tariff_millions")
       /\ RollupValue(monthly, month, "total_deposits_millions_sum")
            = DailySum(DaysOfMonth(month), "total_deposits_millions")
  /\ \A year \in AllYears \cup DOMAIN yearly :
       /\ RollupValue(yearly, year, "tariff_millions_sum")
            = DailySum(DaysOfYear(year), "tariff_millions")
       /\ RollupValue(yearly, year, "total_deposits_millions_sum")
            = DailySum(DaysOfYear(year), "total_deposits_millions")

January == [y |-> 2025, m |-> 1, d |-> 1]

\* C1: from empty tables, after every completed single-day ingestion of any
\* sequence of ingestions (reruns and corrections included), every monthly
\* and yearly rollup equals the sum of the daily records of its bucket, null
\* and a missing rollup row counted as 0.
C1_RollupInvariant == run[1].pc \in {"idle", "done"} => RollupsMatchDaily

\* C1 witness: the run just finished corrected a stored day by -20 in a month
\* that holds two days, 100 and 80.
C1_Witness ==
  /\ run[1].pc = "done"
  /\ run[1].deltaTariff = -20
  /\ Cardinality(DaysOfMonth(January)) = 2
  /\ RollupValue(monthly, January, "tariff_millions_sum") = 180

\* C4: the rollup tables a Full Recompute would produce from the daily
\* records are exactly the incrementally maintained ones: the same keys with
\* the same sums.
C4_RecomputeEqualsRollups ==
  /\ SelectByMonth(daily) = monthly
  /\ SelectByYear(daily) = yearly

\* C5: a re-ingestion of a stored day changes the tariff sum of the day's
\* month and of the day's year by exactly new tariff - old tariff, and their
\* deposit sum by exactly new total - old total.
C5_CorrectionDelta ==
  [][\A date \in IngestDates, payload \in Payloads :
       (IngestDay(1, date, payload) /\ HasRow(daily, ParseDate(date))) =>
         LET k  == ParseDate(date)
             mo == [k EXCEPT !.d = 1]
             dT == OrZero(daily'[k].tariff_millions) - OrZero(daily[k].tariff_millions)
             dD == OrZero(daily'[k].total_deposits_millions)
                     - OrZero(daily[k].total_deposits_millions)
         IN /\ RollupValue(monthly', mo, "tariff_millions_sum")
                 - RollupValue(monthly, mo, "tariff_millions_sum") = dT
            /\ RollupValue(yearly', k.y, "tariff_millions_sum")
                 - RollupValue(yearly, k.y, "tariff_millions_sum") = dT
            /\ RollupValue(monthly', mo, "total_deposits_millions_sum")
                 - RollupValue(monthly, mo, "total_deposits_millions_sum") = dD
            /\ RollupValue(yearly', k.y, "total_deposits_millions_sum")
                 - RollupValue(yearly, k.y, "total_deposits_millions_sum") = dD]_vars

\* C5 witness: a day stored as (100, 500) was re-ingested as (80, 500): the
\* run computed (-20, 0) and the day's month and year hold 80 and 500.
C5_Witness ==
  /\ run[1].pc = "done"
  /\ run[1].deltaTariff = -20 /\ run[1].deltaTotal = 0
  /\ LET k == ParseDate(run[1].date)
     IN /\ daily[k].tariff_millions = Some(80)
        /\ daily[k].total_deposits_millions = Some(500)
        /\ Cardinality(DaysOfYear(k.y)) = 1
        /\ monthly[[k EXCEPT !.d = 1]].tariff_millions_sum = 80
        /\ yearly[k.y].tariff_millions_sum = 80
        /\ yearly[k.y].total_deposits_millions_sum = 500

\* C6: re-ingesting a day with the rows stored by its previous ingestion
\* computes the delta (0, 0) and leaves both rollup tables as they were.
C6_Idempotence ==
  [][\A date \in IngestDates, payload \in Payloads :
       ( /\ IngestDay(1, date, payload)
         /\ HasRow(daily, ParseDate(date))
         /\ daily[ParseDate(date)].raw = fetchForDateRaw(date, payload) ) =>
         /\ run'[1].deltaTariff = 0
         /\ run'[1].deltaTotal = 0
         /\ monthly' = monthly
         /\ yearly' = yearly]_vars

\* C6 witness: a run computed (0, 0) for a day stored with tariff 100, which
\* only a second ingestion of the same rows does.
C6_Witness ==
  /\ run[1].pc = "done"
  /\ run[1].deltaTariff = 0 /\ run[1].deltaTotal = 0
  /\ daily[ParseDate(run[1].date)].tariff_millions = Some(100)

\* The fetched row sets without a customs line, and those without any
\* deposit-type line and without an explicit total line.
RowSetsWithoutCustoms ==
  {fetchForDateRaw(date, payload) : date \in Dates,
     payload \in {q \in Payloads : \A i \in 1..Len(q) : ~IsCustomsRow(q[i])}}

RowSetsWithoutDeposits ==
  {fetchForDateRaw(date, payload) : date \in Dates,
     payload \in {q \in Payloads : \A i \in 1..Len(q) :
                    ~IsDepositRow(q[i]) /\ ~IsExplicitTotalRow(q[i])}}

\* C8: a day whose rows hold no customs line is stored with a null tariff
\* value, and a day without any deposit-type line (and without an explicit
\* total line) is stored with a total of 0.
C8_NullVersusZero ==
  \A k \in DOMAIN daily :
    /\ daily[k].raw \in RowSetsWithoutCustoms => daily[k].tariff_millions = Null
    /\ daily[k].raw \in RowSetsWithoutDeposits =>
         daily[k].total_deposits_millions = Some(0)

\* C2: two single-day runs for the same date whose statements interleave do
\* not corrupt the rollups: once both have finished, every monthly and yearly
\* rollup equals the sum of the daily records of its bucket.
C2_OverlapKeepsRollups ==
  ( /\ run[1].pc = "done" /\ run[2].pc = "done"
    /\ run[1].date = run[2].date ) => RollupsMatchDaily

\* C3: whichever database statement of a single-day run fails, after the run
\* has ended every monthly and yearly rollup equals the sum of the daily
\* records of its bucket.
C3_FailureKeepsRollups ==
  (run[1].pc = "done" /\ run[1].exitCode = 1) => RollupsMatchDaily

\* Both rollup tables hold exactly one row per bucket that has a daily
\* record, and each row holds the sums of its bucket, null counted as 0.
ExactRollups ==
  /\ DOMAIN monthly = {DateTruncMonth(k) : k \in DOMAIN daily}
  /\ DOMAIN yearly = {ExtractYear(k) : k \in DOMAIN daily}
  /\ \A month \in DOMAIN monthly :
       /\ monthly[month].tariff_millions_sum
            = DailySum(DaysOfMonth(month), "tariff_millions")
       /\ monthly[month].total_deposits_millions_sum
            = DailySum(DaysOfMonth(month), "total_deposits_millions")
  /\ \A year \in DOMAIN yearly :
       /\ yearly[year].tariff_millions_sum
            = DailySum(DaysOfYear(year), "tariff_millions")
       /\ yearly[year].total_deposits_millions_sum
            = DailySum(DaysOfYear(year), "total_deposits_millions")

\* C7: a Full Recompute run from any state of the three tables replaces both
\* rollup tables at its commit: afterwards there is exactly one monthly row
\* per month and one yearly row per year that has a daily record, each with
\* the sums of its bucket (null counted as 0), and no other row; and while the
\* transaction is between BEGIN and COMMIT the stored rollup tables keep
\* their rows, so that no reader sees them emptied.
C7_RecomputeExact ==
  [][ /\ (rc.pc = "insertedYearly" /\ rc'.pc = "committed") => ExactRollups'
      /\ rc'.pc \notin {"idle", "committed"} =>
           (monthly' = monthly /\ yearly' = yearly) ]_vars

\* C7 witness: a single-day run stored 80 for 2025-01-30, a backfill stored
\* 100 over it and null for 2025-01-31, and the recompute that followed
\* replaced the January row of 80 by one of 100.
C7_Witness ==
  /\ rc.pc = "committed"
  /\ run[1].pc = "done" /\ run[1].date = "2025-01-30" /\ run[1].deltaTariff = 80
  /\ bf.pc = "done"
  /\ daily[ToDate("2025-01-30")].tariff_millions = Some(100)
  /\ daily[ToDate("2025-01-31")].tariff_millions = Null
  /\ monthly[January].tariff_millions_sum = 100
  /\ yearly[2025].tariff_millions_sum = 100

\* C9: the loop of a backfill never aborts: after every turn the upserted and
\* the failed dates are together the dates visited so far; once the loop has
\* visited all n dates, of which k failed, the count it reports is n - k,
\* every date that did not fail is stored with its own lines, and for every
\* failed date the side channel holds the lines of exactly that date.
C9_BackfillCounts ==
  bf.pc \in {"loop", "done"} =>
    /\ bf.processed + Cardinality(bf.failed) = bf.i - 1
    /\ bf.failed \subseteq {bf.dates[j] : j \in 1..(bf.i - 1)}
    /\ bf.i > Len(bf.dates) =>
         bf.processed = Len(bf.dates) - Cardinality(bf.failed)
    /\ (bf.pc = "loop" /\ bf.i > Len(bf.dates)) =>
         \A j \in 1..Len(bf.dates) :
           LET d == bf.dates[j]
           IN IF d \in bf.failed
              THEN /\ HasRow(files, FailedFile(d))
                   /\ files[FailedFile(d)] = bf.grouped[d]
                   /\ \A n \in 1..Len(files[FailedFile(d)]) :
                        files[FailedFile(d)][n].record_date = d
              ELSE /\ HasRow(daily, ToDate(d))
                   /\ daily[ToDate(d)].raw = bf.grouped[d]

\* C9 witness: a backfill of 5 dates whose third upsert failed reported 4, and
\* the two dates after the failing one are stored.
C9_Witness ==
  /\ bf.pc = "done"
  /\ Len(bf.dates) = 5
  /\ bf.failed = {bf.dates[3]}
  /\ bf.processed = 4
  /\ HasRow(daily, ToDate(bf.dates[4])) /\ HasRow(daily, ToDate(bf.dates[5]))
  /\ ~HasRow(daily, ToDate(bf.dates[3]))
  /\ HasRow(files, FailedFile(bf.dates[3]))

\* C10: no step of a backfill, from its start to its end, changes a row of
\* the monthly or of the yearly rollup table, and none changes anything but
\* daily records and side-channel files.
C10_BackfillLeavesRollups ==
  [][bf' # bf => /\ monthly' = monthly
                 /\ yearly' = yearly
                 /\ run' = run
                 /\ rc' = rc]_vars

\* C10 witness: a backfill has stored dates while no recompute has run, and
\* the rollups no longer equal the sums of the daily records.
C10_Witness ==
  /\ bf.pc = "done"
  /\ bf.processed >= 2
  /\ rc.pc = "idle"
  /\ monthly # EmptyTable
  /\ ~RollupsMatchDaily

\* C11: a call of the Delta Aggregator with the deltas (0, 0) changes no
\* rollup row; any other call changes exactly the monthly row of the first
\* day of the date's month and the yearly row of the date's year, each to its
\* old sums plus the deltas, or to the deltas if the row did not exist; every
\* other monthly and yearly row and every daily record stays as it was.
C11_AggregatorFrame ==
  [][(run'[1].pc = "aggregated" /\ started' # started) =>
         LET date == run'[1].date
             dT == run'[1].deltaTariff
             dD == run'[1].deltaTotal
             mo == DateTruncMonth(ToDate(date))
             yr == ToDate(date).y
         IN /\ daily' = daily
            /\ IF dT = 0 /\ dD = 0
               THEN monthly' = monthly /\ yearly' = yearly
               ELSE /\ DOMAIN monthly' = DOMAIN monthly \cup {mo}
                    /\ DOMAIN yearly' = DOMAIN yearly \cup {yr}
                    /\ \A k \in DOMAIN monthly \ {mo} : monthly'[k] = monthly[k]
                    /\ \A k \in DOMAIN yearly \ {yr} : yearly'[k] = yearly[k]
                    /\ monthly'[mo].tariff_millions_sum
                         = RollupValue(monthly, mo, "tariff_millions_sum") + dT
                    /\ monthly'[mo].total_deposits_millions_sum
                         = RollupValue(monthly, mo, "total_deposits_millions_sum") + dD
                    /\ yearly'[yr].tariff_millions_sum
                         = RollupValue(yearly, yr, "tariff_millions_sum") + dT
                    /\ yearly'[yr].total_deposits_millions_sum
                         = RollupValue(yearly, yr, "total_deposits_millions_sum") + dD]_vars

\* C11 witness: the aggregator was called with (80, -20) for a day of January
\* 2025 whose rollups held (100, 500): they hold (180, 480), the February row
\* is there untouched and the daily record still holds 100.
C11_Witness ==
  /\ run[1].pc = "aggregated"
  /\ run[1].date = "2025-01-30"
  /\ run[1].deltaTariff = 80 /\ run[1].deltaTotal = -20
  /\ HasRow(daily, ToDate("2025-01-30"))
  /\ HasRow(monthly, January)
  /\ HasRow(monthly, [y |-> 2025, m |-> 2, d |-> 1])
  /\ daily[ToDate("2025-01-30")].tariff_millions = Some(100)
  /\ monthly[January].tariff_millions_sum = 180
  /\ monthly[January].total_deposits_millions_sum = 480
  /\ yearly[2025].tariff_millions_sum = 260

\* The values stored for a date, null counted as 0, and (0, 0) without a row.
StoredValues(dly, date) ==
  IF HasRow(dly, ToDate(date))
  THEN <<OrZero(dly[ToDate(date)].tariff_millions),
         OrZero(dly[ToDate(date)].total_deposits_millions)>>
  ELSE <<0, 0>>

\* C12: what the daily upsert of a run returns for its date is the pair of
\* values stored for that date immediately before the statement, or (0, 0)
\* if no row of the date existed.
C12_UpsertReturnsPrevious ==
  [][\A p \in Procs :
       (run[p].pc = "selected" /\ run'[p].pc # "selected") =>
         LET res == Returning(daily', run[p].date)
         IN <<OrZero(res.tariff_millions), OrZero(res.total_deposits_millions)>>
              = StoredValues(daily, run[p].date)]_vars

\* C13: when the only date whose run ever failed with a database error has
\* since been ingested again, successfully and with the rows the failed run
\* had fetched, every monthly and yearly rollup equals the sum of the daily
\* records of its bucket again.
C13_RerunRecovers ==
  ( /\ run[1].pc = "done"
    /\ run[1].exitCode = 0
    /\ DOMAIN files = {run[1].date \o ".json"}
    /\ HasRow(daily, ToDate(run[1].date))
    /\ daily[ToDate(run[1].date)].raw = files[run[1].date \o ".json"] )
  => RollupsMatchDaily

\* C14: in every state of a single-day run, between any two of its database
\* statements too, what the three tables hold is consistent: every monthly
\* and yearly rollup equals the sum of the daily records of its bucket.
C14_ReaderSeesOneOperation ==
  \A p \in {1} :
    run[p].pc \in {"idle", "selected", "upserted", "monthlyDone", "done"}
      => RollupsMatchDaily

\* The category labels of the menu that hold the words total deposits as
\* whole words, the labels of its deposits that are no aggregate, and the
\* amount each line of the menu carries.
TotalDepositsLabels == {"Total Deposits", "Treasury General Account Total Deposits"}

GenuineDepositLabels ==
  {"Taxes - Corporate Income", "Postal Service Money Orders",
   "Customs and Certain Excise Taxes", "Taxes - Individual Income"}

MenuAmount(r) ==
  CASE r.transaction_today_amt = "900" -> 900
    [] r.transaction_today_amt = "1000" -> 1000
    [] r.transaction_today_amt = "700" -> 700
    [] r.transaction_today_amt = "2000" -> 2000
    [] r.transaction_today_amt = "10" -> 10
    [] r.transaction_today_amt = "20" -> 20
    [] r.transaction_today_amt = "30" -> 30
    [] r.transaction_today_amt = "820" -> 820

\* the stored rows are rows of the menu
OfMenu(rows) ==
  \A i \in 1..Len(rows) :
    \E j \in 1..Len(ClassifierMenu) :
      /\ rows[i].transaction_catg = ClassifierMenu[j].transaction_catg
      /\ rows[i].account_type = ClassifierMenu[j].account_type
      /\ rows[i].transaction_today_amt = ClassifierMenu[j].transaction_today_amt

Positions(rows, labels) == {i \in 1..Len(rows) : rows[i].transaction_catg \in labels}

RECURSIVE SumAt(_, _)
SumAt(rows, positions) ==
  IF positions = {} THEN 0
  ELSE LET i == CHOOSE x \in positions : TRUE
       IN MenuAmount(rows[i]) + SumAt(rows, positions \ {i})

\* the positions of the deposits that carry no aggregate phrase in either label
GenuinePositions(rows) ==
  {i \in Positions(rows, GenuineDepositLabels) : rows[i].account_type = TGA}

\* C15: a day whose rows hold a line with the whole words total deposits in
\* its category label is stored, by either path, with the amount of the first
\* such line as its total, whatever its deposit lines sum to.
C15_ExplicitTotalWins ==
  \A k \in DOMAIN daily :
    LET rows == daily[k].raw
        hits == Positions(rows, TotalDepositsLabels)
    IN (OfMenu(rows) /\ hits # {}) =>
         daily[k].total_deposits_millions
           = Some(MenuAmount(rows[CHOOSE i \in hits : \A j \in hits : i <= j]))

\* C15 witness: a day with the explicit total 900 and the deposits 10, 20 and
\* 820, which sum to 850, is stored with the total 900.
C15_Witness ==
  \E k \in DOMAIN daily :
    LET rows == daily[k].raw
    IN /\ OfMenu(rows)
       /\ Len(rows) = 4
       /\ Positions(rows, {"Total Deposits"}) # {}
       /\ SumAt(rows, GenuinePositions(rows)) = 850
       /\ daily[k].total_deposits_millions = Some(900)

NoNumberTexts == {"", "null", "N/A", "-", ".", "5-3", "12.5.3"}

\* C17: an amount text that holds no number (an empty string, the string
\* null, text without digits, a misplaced minus sign or point) is normalized
\* to null by both normalizers, and a day whose customs line carries it is
\* stored by backfill with a null tariff value, never with 0.
C17_UnparsableIsNull ==
  \A k \in DOMAIN daily :
    LET rows == daily[k].raw
    IN (Len(rows) = 1 /\ rows[1].transaction_today_amt \in NoNumberTexts) =>
         /\ parseMillions(rows[1].transaction_today_amt) = Null
         /\ toNum(rows[1].transaction_today_amt) = Null
         /\ bf.pc = "done" => daily[k].tariff_millions = Null

\* C20: the pair of values a day is stored with is the pair the single-day
\* run computes from the stored rows and also the pair backfill computes from
\* them, a missing customs line and an amount that holds no number included.
C20_BackfillEqualsSingleDay ==
  \A k \in DOMAIN daily :
    LET rows   == daily[k].raw
        stored == [tariff |-> daily[k].tariff_millions,
                   total  |-> daily[k].total_deposits_millions]
    IN /\ stored = computeTariffAndTotalForDate(rows)
       /\ stored = [tariff |-> Some(RoundedOrZero(TariffVal(rows))),
                    total  |-> Some(RoundedOrZero(TotalVal(rows)))]

\* C18: a single-day run for which the source returns no rows ends in the
\* step that starts it, with exit code 0 and without reaching the SELECT of
\* an open connection; that step writes no file and changes no daily record
\* and no rollup row.
C18_NoDataChangesNothing ==
  [][(/\ run'[1] # run[1]
      /\ "rows" \in DOMAIN run'[1]
      /\ run'[1].rows = <<>>)
     => /\ run'[1].pc = "done"
        /\ run'[1].exitCode = 0
        /\ UNCHANGED <<daily, monthly, yearly, files>>]_vars

\* C18 witness: a run that fetched no rows has ended with exit code 0 while
\* the tables hold a day and its rollups, and no file is written.
C18_Witness ==
  /\ run[1] = NoData("2025-02-03")
  /\ DOMAIN daily = {ToDate("2025-01-30")}
  /\ monthly # EmptyTable
  /\ yearly # EmptyTable
  /\ files = EmptyTable

\* C19: when a single-day run ends with a non-zero exit code the file of its
\* date is written; the file of every date a backfill saw refused holds the
\* rows of the date; and when a backfill ends because the database cannot be
\* connected to, a file keyed by each date it fetched holds the rows of the
\* date.
C19_RawRowsSavedOnFailure ==
  /\ (run[1].pc = "done" /\ run[1].exitCode # 0) =>
       HasRow(files, run[1].date \o ".json")
  /\ bf.pc \in {"loop", "done"} =>
       \A d \in bf.failed :
         HasRow(files, FailedFile(d)) /\ files[FailedFile(d)] = bf.grouped[d]
  /\ bf.pc = "exited" =>
       \A i \in 1..Len(bf.dates) :
         \E name \in {FailedFile(bf.dates[i]), bf.dates[i] \o ".json"} :
           HasRow(files, name) /\ files[name] = bf.grouped[bf.dates[i]]

\* the number of the last page of a result of n lines
LastPageNumber(n) == IF n = 0 THEN 1 ELSE PagesOf(n)

\* every answer declared the page count, or the last page is shorter than the
\* page size
SignalAvailable ==
  \/ \A i \in 1..Len(bf.metas) : bf.metas[i] = "total" /\ bf.n > 0
  \/ bf.n % PAGE_SIZE # 0
  \/ bf.n = 0

\* what C21 says of every state of a fetch
PagesInOrder ==
  bf.pc \in {"fetching", "fetched"} =>
    /\ \A i \in 1..Len(bf.requested) : bf.requested[i] = i
    /\ bf.pc = "fetching" => bf.page = Len(bf.requested) + 1
    /\ bf.pc = "fetched" => bf.all = UpstreamResult(bf.n)
    /\ (bf.pc = "fetched" /\ SignalAvailable) =>
         Len(bf.requested) = LastPageNumber(bf.n)
    /\ (bf.pc = "fetching" /\ SignalAvailable) =>
         Len(bf.requested) < LastPageNumber(bf.n)

\* C21: a fetch asks for the pages 1, 2, ... in ascending order, each once;
\* when every answer declares the page count or the last page is short it
\* stops with the last page of the result, not before and not after; what it
\* returns is the lines of all pages in order, none dropped or repeated; and
\* every fetch that starts returns.
C21_Pagination ==
  /\ []PagesInOrder
  /\ [](bf.pc = "fetching" => <>(bf.pc = "fetched"))

\* C21 witness: a fetch of a result of four pages, the last one short, has
\* returned all seven lines after answers of all three shapes.
C21_Witness ==
  /\ bf.pc = "fetched"
  /\ bf.n = 7
  /\ bf.requested = <<1, 2, 3, 4>>
  /\ {bf.metas[i] : i \in 1..Len(bf.metas)} = MetaKinds
  /\ Len(bf.all) = 7
  /\ bf.all = SubSeq(Everything, 1, 7)

\* the texts of YearTexts that are no integer from 1900 to 3000
YearTextsOutOfBound == {"1899", "3001", "2025.5", "abc", "0", "-5", "20x5"}

\* C22: a request to /api/cumulative, /api/monthly or /api/summary/today
\* whose year is supplied and is no integer from 1900 to 3000 is answered
\* with an error status, runs no query and is answered for no year.
C22_YearValidation ==
  (/\ served # Idle
   /\ served.year # Null
   /\ served.year[1] \in YearTextsOutOfBound)
  => /\ served.status >= 400
     /\ served.queries = 0
     /\ served.answered = Null

\* The delta a run has computed and not yet added to the month (to the year)
\* of its date.
PendingMonthly(p, month, field) ==
  IF run[p].pc = "upserted" /\ ToDate(monthKey(run[p].date)) = month
  THEN run[p][field] ELSE 0

PendingYearly(p, year, field) ==
  IF run[p].pc \in {"upserted", "monthlyDone"} /\ yearKey(run[p].date) = year
  THEN run[p][field] ELSE 0

\* C23: while single-day runs of different dates interleave their statements,
\* every monthly and yearly rollup plus the increments the runs in flight have
\* computed and not yet applied equals the sum of the stored daily values of
\* its bucket; so once both runs have finished every rollup equals that sum,
\* also when both dates are in the same month and year.
C23_TwoDatesKeepRollups ==
  /\ \A month \in AllMonths \cup DOMAIN monthly :
       /\ RollupValue(monthly, month, "tariff_millions_sum")
            + PendingMonthly(1, month, "deltaTariff")
            + PendingMonthly(2, month, "deltaTariff")
            = DailySum(DaysOfMonth(month), "tariff_millions")
       /\ RollupValue(monthly, month, "total_deposits_millions_sum")
            + PendingMonthly(1, month, "deltaTotal")
            + PendingMonthly(2, month, "deltaTotal")
            = DailySum(DaysOfMonth(month), "total_deposits_millions")
  /\ \A year \in AllYears \cup DOMAIN yearly :
       /\ RollupValue(yearly, year, "tariff_millions_sum")
            + PendingYearly(1, year, "deltaTariff")
            + PendingYearly(2, year, "deltaTariff")
            = DailySum(DaysOfYear(year), "tariff_millions")
       /\ RollupValue(yearly, year, "total_deposits_millions_sum")
            + PendingYearly(1, year, "deltaTotal")
            + PendingYearly(2, year, "deltaTotal")
            = DailySum(DaysOfYear(year), "total_deposits_millions")
  /\ (Resting(1) /\ Resting(2)) => RollupsMatchDaily

\* C23 witness: two runs of two days of January are in flight at once, both
\* have stored their day, one has added its delta to the month and the other
\* has not.
C23_Witness ==
  /\ run[1].pc = "upserted"
  /\ run[2].pc = "monthlyDone"
  /\ run[1].date = "2025-01-30"
  /\ run[2].date = "2025-01-31"
  /\ run[1].deltaTariff # 0
  /\ run[2].deltaTariff # 0
  /\ Cardinality(DaysOfMonth(January)) = 2
  /\ RollupValue(monthly, January, "tariff_millions_sum") = run[2].deltaTariff

\* C24: whenever no single-day run and no Full Recompute is under way, also
\* after a recompute whose statements interleaved with those of a run, every
\* monthly and yearly rollup equals the sum of the stored daily values of its
\* bucket.
C24_RecomputeOverlapKeepsRollups ==
  (Resting(1) /\ rc.pc \in {"idle", "committed"}) => RollupsMatchDaily

====
